---- MODULE Spec2Model ----
(***************************************************************************)
(* Model of generation/maisi/maisi_diff_unet_training_tutorial.ipynb: the  *)
(* notebook cells run top to bottom (simulated data, configuration         *)
(* patching, three torchrun stages, attribute files for the embeddings).   *)
(*                                                                         *)
(* Representation                                                          *)
(*   text      a sequence of characters ("a", " ", "\n", "\r"), of the      *)
(*             token BadByte (a byte that is no UTF-8 text) and, for the   *)
(*             fixed parts of a message, of whole strings                  *)
(*   name      a file name as a sequence of tokens, stem first, then its   *)
(*             suffixes: "tr_image_001.nii.gz" is                          *)
(*             <<"tr_image_001", ".nii", ".gz">>                           *)
(*   path      a sequence of names; "." is the name <<".">>                *)
(*   fs        the file system below the notebook's directory: a function  *)
(*             from normalised paths to nodes                              *)
(*   JSON      tagged values: num, str, path (a string holding a path),    *)
(*             null, list, obj (a function from keys to values)            *)
(*   Python    the same scalars, none, tuple, and references into heap     *)
(*             (dict and list objects made by json.load / copy.deepcopy);  *)
(*             literals that the code only reads are inline dict / list    *)
(***************************************************************************)
EXTENDS Integers, Sequences, FiniteSets, TLC

VARIABLES
    cell,               \* the notebook cell that runs next ("done", "error")
    scn,                \* the inputs of this run: an index into Scenarios
    fs,                 \* the file system
    heap,               \* Python dict / list objects
    env_config, model_config, model_def,                 \* loaded configs
    env_config_out, model_config_out, model_def_out,     \* their copies
    procs,              \* every subprocess.Popen so far, in launch order
    rt,                 \* position inside run_torchrun
    process,            \* run_torchrun's local: index into procs (0: none)
    out_written,        \* lines the current child wrote to stdout so far
    err_written,        \* lines the current child wrote to stderr so far
    console,            \* what print() emitted in the current cell
    returned,           \* modules for which run_torchrun has returned
    gz_files,           \* the notebook global: what list_gz_files returned
    e                   \* run_torchrun's local e inside "except Exception as e"

vars == <<cell, scn, fs, heap, env_config, model_config, model_def,
          env_config_out, model_config_out, model_def_out,
          procs, rt, process, out_written, err_written, console, returned,
          gz_files, e>>

(***************************************************************************)
(* Bounds of the model.                                                    *)
(***************************************************************************)
\* writes of one child to its stdout at most
MaxOut == 2
\* writes of one child to its stderr at most
MaxErr == 1

(***************************************************************************)
(* Generic helpers.                                                        *)
(***************************************************************************)
EmptyFn == [x \in {} |-> x]

\* the members of S one after the other; used where the result does not
\* depend on the order (the keys of a JSON object, visited by json.load and
\* copy.deepcopy)
RECURSIVE SetToSeq(_)
SetToSeq(S) ==
    IF S = {} THEN <<>>
    ELSE LET x == CHOOSE y \in S : TRUE IN <<x>> \o SetToSeq(S \ {x})

RECURSIVE Concat(_)
Concat(ss) == IF ss = <<>> THEN <<>> ELSE Head(ss) \o Concat(Tail(ss))

Min(a, b) == IF a < b THEN a ELSE b

(***************************************************************************)
(* Paths and the file system.                                              *)
(***************************************************************************)
Dot == <<".">>
Root == <<"/">>

IsAbs(p) == p # <<>> /\ Head(p) = Root

\* os.path.join(a, b): an absolute b discards a
PathJoin(a, b) == IF IsAbs(b) THEN b ELSE a \o b

\* the path the OS resolves: "." components name the directory itself
Norm(p) == SelectSeq(p, LAMBDA n : n # Dot)

Prefixes(p) == { SubSeq(p, 1, n) : n \in 0..Len(p) }

Dir == [kind |-> "dir"]
File(d) == [kind |-> "file", data |-> d]

Exists(f, p) == Norm(p) \in DOMAIN f
IsDir(f, p) == Exists(f, p) /\ f[Norm(p)].kind = "dir"
IsFile(f, p) == Exists(f, p) /\ f[Norm(p)].kind = "file"

\* os.makedirs(p) / os.makedirs(p, exist_ok=True): p and its missing parents
MakeDirs(f, p) ==
    [q \in { r \in Prefixes(Norm(p)) : r \notin DOMAIN f } |-> Dir] @@ f

\* open(p, "w") and a write of d
WriteFile(f, p, d) == (Norm(p) :> File(d)) @@ f

\* path + ".json": the suffix is appended to the last name of the path
AddSuffix(p, s) == [p EXCEPT ![Len(p)] = Append(@, s)]

(***************************************************************************)
(* JSON documents and Python values.                                       *)
(***************************************************************************)
JNum(n) == [t |-> "num", v |-> n]
JStr(s) == [t |-> "str", v |-> s]
JPath(p) == [t |-> "path", p |-> p]
JNull == [t |-> "null"]
JObj(m) == [t |-> "obj", v |-> m]
JList(s) == [t |-> "list", v |-> s]

PyNone == [t |-> "none"]
PyRef(r) == [t |-> "ref", r |-> r]
PyDict(m) == [t |-> "dict", v |-> m]
PyList(s) == [t |-> "list", v |-> s]
PyTuple(s) == [t |-> "tuple", v |-> s]

\* json.load: every JSON object becomes a new dict, every array a new list
RECURSIVE JsonLoad(_, _), LoadMembers(_, _, _, _), LoadItems(_, _, _)
JsonLoad(h, jv) ==
    IF jv.t = "obj" THEN
        LET r == LoadMembers(h, jv.v, SetToSeq(DOMAIN jv.v), EmptyFn)
        IN [h |-> Append(r.h, PyDict(r.val)), val |-> PyRef(Len(r.h) + 1)]
    ELSE IF jv.t = "list" THEN
        LET r == LoadItems(h, jv.v, <<>>)
        IN [h |-> Append(r.h, PyList(r.val)), val |-> PyRef(Len(r.h) + 1)]
    ELSE IF jv.t = "null" THEN [h |-> h, val |-> PyNone]
    ELSE [h |-> h, val |-> jv]
LoadMembers(h, m, ks, acc) ==
    IF ks = <<>> THEN [h |-> h, val |-> acc]
    ELSE LET r == JsonLoad(h, m[Head(ks)])
         IN LoadMembers(r.h, m, Tail(ks), (Head(ks) :> r.val) @@ acc)
LoadItems(h, items, acc) ==
    IF items = <<>> THEN [h |-> h, val |-> acc]
    ELSE LET r == JsonLoad(h, Head(items))
         IN LoadItems(r.h, Tail(items), Append(acc, r.val))

\* json.dump: the document a Python value serialises to (None -> null,
\* tuple -> array, dict -> object); sort_keys / indent only lay the text out
RECURSIVE JsonDump(_, _), DumpItems(_, _)
JsonDump(h, pv) ==
    IF pv.t = "ref" THEN JsonDump(h, h[pv.r])
    ELSE IF pv.t = "dict" THEN
        JObj([k \in DOMAIN pv.v |-> JsonDump(h, pv.v[k])])
    ELSE IF pv.t \in {"list", "tuple"} THEN JList(DumpItems(h, pv.v))
    ELSE IF pv.t = "none" THEN JNull
    ELSE pv
DumpItems(h, items) ==
    IF items = <<>> THEN <<>>
    ELSE <<JsonDump(h, Head(items))>> \o DumpItems(h, Tail(items))

\* a mutation of copy.deepcopy: copy.copy, whose nested objects are shared
ShallowCopy(h, pv) ==
    IF pv.t = "ref" THEN [h |-> Append(h, h[pv.r]), val |-> PyRef(Len(h) + 1)]
    ELSE [h |-> h, val |-> pv]

\* copy.deepcopy: new objects all the way down
RECURSIVE DeepCopy(_, _), CopyMembers(_, _, _, _), CopyItems(_, _, _)
DeepCopy(h, pv) ==
    IF pv.t = "ref" THEN
        LET o == h[pv.r] IN
        IF o.t = "dict" THEN
            LET r == CopyMembers(h, o.v, SetToSeq(DOMAIN o.v), EmptyFn)
            IN [h |-> Append(r.h, PyDict(r.val)), val |-> PyRef(Len(r.h) + 1)]
        ELSE
            LET r == CopyItems(h, o.v, <<>>)
            IN [h |-> Append(r.h, PyList(r.val)), val |-> PyRef(Len(r.h) + 1)]
    ELSE [h |-> h, val |-> pv]
CopyMembers(h, m, ks, acc) ==
    IF ks = <<>> THEN [h |-> h, val |-> acc]
    ELSE LET r == DeepCopy(h, m[Head(ks)])
         IN CopyMembers(r.h, m, Tail(ks), (Head(ks) :> r.val) @@ acc)
CopyItems(h, items, acc) ==
    IF items = <<>> THEN [h |-> h, val |-> acc]
    ELSE LET r == DeepCopy(h, Head(items))
         IN CopyItems(r.h, Tail(items), Append(acc, r.val))

\* d[k] is defined: d is a dict that has the key k (else KeyError / TypeError)
HasItem(h, pv, k) == pv.t = "ref" /\ h[pv.r].t = "dict" /\ k \in DOMAIN h[pv.r].v
\* d[k] = ... is defined: d is a dict
IsDictRef(h, pv) == pv.t = "ref" /\ h[pv.r].t = "dict"
GetItem(h, pv, k) == h[pv.r].v[k]
SetItem(h, pv, k, val) == [h EXCEPT ![pv.r].v = (k :> val) @@ @]

(***************************************************************************)
(* The notebook's constants.                                               *)
(***************************************************************************)
sim_datalist ==
    PyDict("training" :> PyList(<<
        PyDict("image" :> JPath(<< <<"tr_image_001", ".nii", ".gz">> >>)),
        PyDict("image" :> JPath(<< <<"tr_image_002", ".nii", ".gz">> >>)) >>))

sim_dim == <<224, 224, 96>>

work_dir == << Dot, <<"temp_work_dir">> >>
dataroot_dir == PathJoin(work_dir, << <<"sim_dataroot">> >>)
datalist_file == PathJoin(work_dir, << <<"sim_datalist", ".json">> >>)

configs_dir == << Dot, <<"configs">> >>
env_config_path == PathJoin(configs_dir, << <<"environment_maisi_diff_model", ".json">> >>)
model_config_path == PathJoin(configs_dir, << <<"config_maisi_diff_model", ".json">> >>)
model_def_path == PathJoin(configs_dir, << <<"config_maisi", ".json">> >>)

env_config_filepath == PathJoin(work_dir, << <<"environment_maisi_diff_model", ".json">> >>)
model_config_filepath == PathJoin(work_dir, << <<"config_maisi_diff_model", ".json">> >>)
model_def_filepath == PathJoin(work_dir, << <<"config_maisi", ".json">> >>)

max_epochs == 2
num_splits == 4
num_gpus == 1

(***************************************************************************)
(* Images.  A NIfTI file is its shape and the zooms of its header, the     *)
(* zooms in hundredths (100 is a spacing of 1.0).                          *)
(***************************************************************************)
Nifti(shape, zooms) == [t |-> "nifti", shape |-> shape, zooms |-> zooms]
Json(doc) == [t |-> "json", doc |-> doc]
Opaque == [t |-> "bin"]

\* monai.data.create_test_image_3d(height, width, depth, ...): the image
\* array, of shape (height, width, depth)
CreateTestImage3d(height, width, depth) == <<height, width, depth>>

\* nib.Nifti1Image(im, affine=np.eye(4)): the identity affine gives unit zooms
Nifti1Image(im) == Nifti(im, [i \in 1..Len(im) |-> 100])

(***************************************************************************)
(* The inputs of a run: the three source configurations under ./configs    *)
(* and what an earlier run left in the work directory.                     *)
(***************************************************************************)
EnvSource ==
    JObj(  "data_base_dir" :> JPath(<< Dot, <<"dataset">> >>)
        @@ "embedding_base_dir" :> JPath(<< Dot, <<"embeddings">> >>)
        @@ "json_data_list" :> JPath(<< Dot, <<"dataset", ".json">> >>)
        @@ "model_dir" :> JPath(<< Dot, <<"models">> >>)
        @@ "model_filename" :> JPath(<< <<"diff_unet_ckpt", ".pt">> >>)
        @@ "output_dir" :> JPath(<< Dot, <<"predictions">> >>)
        @@ "trained_autoencoder_path" :> JPath(<< Dot, <<"models">>, <<"autoencoder", ".pt">> >>))

TrainFull == JObj("batch_size" :> JNum(1) @@ "lr" :> JStr("1e-4") @@ "n_epochs" :> JNum(1000))
TrainNoEpochs == JObj("batch_size" :> JNum(1) @@ "lr" :> JStr("1e-4"))
InferSection == JObj("num_inference_steps" :> JNum(10) @@ "random_seed" :> JNull)

ModelConfigSources ==
    << JObj("diffusion_unet_train" :> TrainFull @@ "diffusion_unet_inference" :> InferSection),
       JObj("diffusion_unet_train" :> TrainNoEpochs @@ "diffusion_unet_inference" :> InferSection),
       JObj("diffusion_unet_inference" :> InferSection),
       JObj("diffusion_unet_train" :> JNum(1000) @@ "diffusion_unet_inference" :> InferSection) >>

AutoencoderDef == JObj("latent_channels" :> JNum(4) @@ "num_splits" :> JNum(16))
UnetDef == JObj("num_channels" :> JList(<<JNum(64), JNum(128)>>) @@ "num_splits" :> JNum(16))

ModelDefSources ==
    << JObj("spatial_dims" :> JNum(3) @@ "autoencoder_def" :> AutoencoderDef @@ "diffusion_unet_def" :> UnetDef),
       JObj("spatial_dims" :> JNum(3) @@ "diffusion_unet_def" :> UnetDef) >>

Scenarios ==
    { [model_config |-> 1, model_def |-> 1, stale |-> FALSE],
      [model_config |-> 2, model_def |-> 1, stale |-> TRUE],
      [model_config |-> 3, model_def |-> 1, stale |-> FALSE],
      [model_config |-> 4, model_def |-> 1, stale |-> TRUE],
      [model_config |-> 1, model_def |-> 2, stale |-> TRUE] }

SourceModelConfig(s) == ModelConfigSources[s.model_config]
SourceModelDef(s) == ModelDefSources[s.model_def]

\* the attribute file an earlier run of the notebook wrote for an embedding
OldAttributes(dim) ==
    JObj(  "dim" :> JList(dim)
        @@ "spacing" :> JList(<<JNum(100), JNum(125), JNum(75)>>)
        @@ "top_region_index" :> JList(<<JNum(0), JNum(1), JNum(0), JNum(0)>>)
        @@ "bottom_region_index" :> JList(<<JNum(0), JNum(0), JNum(1), JNum(0)>>))

CleanFS(s) ==
       <<>> :> Dir
    @@ Norm(configs_dir) :> Dir
    @@ Norm(env_config_path) :> File(Json(EnvSource))
    @@ Norm(model_config_path) :> File(Json(SourceModelConfig(s)))
    @@ Norm(model_def_path) :> File(Json(SourceModelDef(s)))

old_emb_dir == << <<"temp_work_dir">>, <<"embeddings">> >>

\* what an earlier run left behind: an image, a log, and in a subfolder a
\* 4-dimensional embedding with its attribute file
StaleFS ==
       << <<"temp_work_dir">> >> :> Dir
    @@ << <<"temp_work_dir">>, <<"sim_dataroot">> >> :> Dir
    @@ << <<"temp_work_dir">>, <<"sim_dataroot">>, <<"old_image", ".nii", ".gz">> >>
           :> File(Nifti(<<128, 160, 96>>, <<100, 100, 100>>))
    @@ old_emb_dir :> Dir
    @@ Append(old_emb_dir, <<"run", ".log">>) :> File(Opaque)
    @@ Append(old_emb_dir, <<"sub">>) :> Dir
    @@ old_emb_dir \o << <<"sub">>, <<"old_scan", "_emb", ".nii", ".gz">> >>
           :> File(Nifti(<<32, 32, 16, 4>>, <<100, 100, 200, 100>>))
    @@ old_emb_dir \o << <<"sub">>, <<"old_scan", "_emb", ".nii", ".gz", ".json">> >>
           :> File(Json(OldAttributes(<<JNum(32), JNum(40), JNum(24)>>)))

InitFS(s) == IF s.stale THEN StaleFS @@ CleanFS(s) ELSE CleanFS(s)

ReadJson(f, p) == f[Norm(p)].data.doc

Init ==
    /\ scn \in Scenarios
    /\ fs = InitFS(scn)
    /\ cell = "datagen"
    /\ heap = <<>>
    /\ env_config = PyNone /\ model_config = PyNone /\ model_def = PyNone
    /\ env_config_out = PyNone /\ model_config_out = PyNone /\ model_def_out = PyNone
    /\ procs = <<>>
    /\ rt = "idle"
    /\ process = 0
    /\ out_written = <<>>
    /\ err_written = <<>>
    /\ console = <<>>
    /\ returned = <<>>
    /\ gz_files = <<>>
    /\ e = <<>>

(***************************************************************************)
(* Cell 1b199078: generate the simulated images.                           *)
(***************************************************************************)
\* a mutation of the image path: the image lands in work_dir
ImagePathInWorkDir(d) == PathJoin(work_dir, d.v["image"].p)

\* image_fpath = os.path.join(dataroot_dir, d["image"])
ImagePath(d) == PathJoin(dataroot_dir, d.v["image"].p)

\* the body of "for d in sim_datalist["training"]", over the entries ds
RECURSIVE SaveImages(_, _)
SaveImages(f, ds) ==
    IF ds = <<>> THEN f
    ELSE LET im == CreateTestImage3d(sim_dim[1], sim_dim[2], sim_dim[3])
         IN SaveImages(WriteFile(f, ImagePath(Head(ds)), Nifti1Image(im)), Tail(ds))

DatagenCell ==
    /\ cell = "datagen"
    /\ LET f1 == IF ~IsDir(fs, work_dir) THEN MakeDirs(fs, work_dir) ELSE fs
           f2 == IF ~IsDir(f1, dataroot_dir) THEN MakeDirs(f1, dataroot_dir) ELSE f1
           f3 == WriteFile(f2, datalist_file, Json(JsonDump(heap, sim_datalist)))
       IN fs' = SaveImages(f3, sim_datalist.v["training"].v)
    /\ cell' = "config"
    /\ UNCHANGED <<scn, e, gz_files, heap, env_config, model_config, model_def,
                   env_config_out, model_config_out, model_def_out,
                   procs, rt, process, out_written, err_written, console, returned>>

(***************************************************************************)
(* Cell 6c7b434c: load, copy, patch and persist the configurations.        *)
(***************************************************************************)
\* the five directory settings and trained_autoencoder_path = None
PatchEnv(h, ec) ==
    LET h1 == SetItem(h, ec, "data_base_dir", JPath(dataroot_dir))
        h2 == SetItem(h1, ec, "embedding_base_dir",
                      JPath(PathJoin(work_dir, GetItem(h1, ec, "embedding_base_dir").p)))
        h3 == SetItem(h2, ec, "json_data_list", JPath(datalist_file))
        h4 == SetItem(h3, ec, "model_dir",
                      JPath(PathJoin(work_dir, GetItem(h3, ec, "model_dir").p)))
        h5 == SetItem(h4, ec, "output_dir",
                      JPath(PathJoin(work_dir, GetItem(h4, ec, "output_dir").p)))
    IN SetItem(h5, ec, "trained_autoencoder_path", PyNone)

\* a mutation of the epochs patch: the key is set on the top-level dict
PatchEpochsTopLevel(h, mc) == SetItem(h, mc, "n_epochs", JNum(max_epochs))

\* model_config_out["diffusion_unet_train"]["n_epochs"] = max_epochs
PatchEpochs(h, mc) ==
    SetItem(h, GetItem(h, mc, "diffusion_unet_train"), "n_epochs", JNum(max_epochs))

\* model_def_out["autoencoder_def"]["num_splits"] = 4
PatchSplits(h, md) ==
    SetItem(h, GetItem(h, md, "autoencoder_def"), "num_splits", JNum(num_splits))

\* x[k1][k2] = ... runs: x[k1] exists and is a dict
CanPatch(h, x, k1) == HasItem(h, x, k1) /\ IsDictRef(h, GetItem(h, x, k1))

ConfigLoad ==
    /\ cell = "config"
    /\ LET l1 == JsonLoad(heap, ReadJson(fs, env_config_path))
           l2 == JsonLoad(l1.h, ReadJson(fs, model_config_path))
           l3 == JsonLoad(l2.h, ReadJson(fs, model_def_path))
           c1 == DeepCopy(l3.h, l1.val)
           c2 == DeepCopy(c1.h, l2.val)
           c3 == DeepCopy(c2.h, l3.val)
       IN /\ env_config' = l1.val /\ model_config' = l2.val /\ model_def' = l3.val
          /\ env_config_out' = c1.val /\ model_config_out' = c2.val
          /\ model_def_out' = c3.val
          /\ heap' = c3.h
    /\ cell' = "config_env"
    /\ UNCHANGED <<scn, e, gz_files, fs, procs, rt, process, out_written, err_written, console, returned>>

\* directories, os.makedirs and the environment file
ConfigEnv ==
    /\ cell = "config_env"
    /\ LET hE == PatchEnv(heap, env_config_out)
           fD == MakeDirs(MakeDirs(MakeDirs(fs,
                     GetItem(hE, env_config_out, "embedding_base_dir").p),
                     GetItem(hE, env_config_out, "model_dir").p),
                     GetItem(hE, env_config_out, "output_dir").p)
       IN /\ heap' = hE
          /\ fs' = WriteFile(fD, env_config_filepath, Json(JsonDump(hE, env_config_out)))
    /\ cell' = "config_model"
    /\ UNCHANGED <<scn, e, gz_files, env_config, model_config, model_def,
                   env_config_out, model_config_out, model_def_out,
                   procs, rt, process, out_written, err_written, console, returned>>

\* "Update model configuration for demo"
ConfigModel ==
    /\ cell = "config_model"
    /\ IF CanPatch(heap, model_config_out, "diffusion_unet_train") THEN
           LET hM == PatchEpochs(heap, model_config_out)
           IN /\ heap' = hM
              /\ fs' = WriteFile(fs, model_config_filepath, Json(JsonDump(hM, model_config_out)))
              /\ cell' = "config_def"
       ELSE \* KeyError / TypeError: the cell stops here
           /\ cell' = "error"
           /\ UNCHANGED <<heap, fs>>
    /\ UNCHANGED <<scn, e, gz_files, env_config, model_config, model_def,
                   env_config_out, model_config_out, model_def_out,
                   procs, rt, process, out_written, err_written, console, returned>>

\* "Update model definition for demo", and the end of the cell
ConfigDef ==
    /\ cell = "config_def"
    /\ IF CanPatch(heap, model_def_out, "autoencoder_def") THEN
           LET hD == PatchSplits(heap, model_def_out)
           IN /\ heap' = hD
              /\ fs' = WriteFile(fs, model_def_filepath, Json(JsonDump(hD, model_def_out)))
              /\ cell' = "create_training_data"
       ELSE \* KeyError / TypeError: the cell stops here
           /\ cell' = "error"
           /\ UNCHANGED <<heap, fs>>
    /\ UNCHANGED <<scn, e, gz_files, env_config, model_config, model_def,
                   env_config_out, model_config_out, model_def_out,
                   procs, rt, process, out_written, err_written, console, returned>>

(***************************************************************************)
(* Text: what the children write and what print() emits.                   *)
(***************************************************************************)
\* the whitespace str.strip() removes, as far as the alphabet has it
IsSpace(c) == c \in {" ", "\t", "\n", "\r"}

RECURSIVE LStrip(_)
LStrip(s) == IF s # <<>> /\ IsSpace(Head(s)) THEN LStrip(Tail(s)) ELSE s

RECURSIVE RStrip(_)
RStrip(s) ==
    IF s # <<>> /\ IsSpace(s[Len(s)]) THEN RStrip(SubSeq(s, 1, Len(s) - 1)) ELSE s

\* str.strip(): leading and trailing whitespace removed
Strip(s) == LStrip(RStrip(s))

\* print(x): the text of x and the line end print adds
PyPrint(s) == s \o <<"\n">>

\* a byte that the pipe's encoding (UTF-8, errors="strict") cannot decode
BadByte == "<ff>"

Undecodable(bytes) == \E k \in 1..Len(bytes) : bytes[k] = BadByte

\* str(UnicodeDecodeError): the position is that of the first bad byte
DecodeError(bytes) ==
    LET pos == CHOOSE k \in 1..Len(bytes) :
                   bytes[k] = BadByte /\ \A j \in 1..(k - 1) : bytes[j] # BadByte
    IN <<"'utf-8' codec can't decode byte 0xff in position ", ToString(pos - 1),
         ": invalid start byte">>

\* text=True: "\r\n" and "\r" are read as "\n"
RECURSIVE TranslateNewlines(_)
TranslateNewlines(s) ==
    IF s = <<>> THEN <<>>
    ELSE IF Head(s) = "\r" THEN
        <<"\n">> \o TranslateNewlines(IF Len(s) >= 2 /\ s[2] = "\n"
                                      THEN SubSeq(s, 3, Len(s)) ELSE Tail(s))
    ELSE <<Head(s)>> \o TranslateNewlines(Tail(s))

\* the lines of a text, each with its line end (the last may have none)
RECURSIVE SplitLines(_)
SplitLines(s) ==
    IF s = <<>> THEN <<>>
    ELSE IF \E k \in 1..Len(s) : s[k] = "\n" THEN
        LET n == CHOOSE k \in 1..Len(s) : s[k] = "\n" /\ \A j \in 1..(k - 1) : s[j] # "\n"
        IN <<SubSeq(s, 1, n)>> \o SplitLines(SubSeq(s, n + 1, Len(s)))
    ELSE <<s>>

\* what a child may write to stdout in one write: a plain line, an
\* indented line with a trailing blank and a "\r\n" end, and a line that
\* is no UTF-8 text
LineSet ==
    { <<"a", "\n">>, <<" ", "b", " ", "\r", "\n">>, <<BadByte, "\n">> }

\* what a child may write to stderr in one write: an indented line that
\* ends with "\r", as a progress bar writes it
ErrLineSet == { <<" ", "e", "\r">> }

(***************************************************************************)
(* Cell 95ea6972: run_torchrun.                                            *)
(***************************************************************************)
num_nodes == 1

StageCells == <<"create_training_data", "train", "infer">>

\* a mutation of the stage cells: training and inference swapped
SwappedModule(c) ==
    IF c = "create_training_data" THEN "scripts.diff_model_create_training_data"
    ELSE IF c = "train" THEN "scripts.diff_model_infer"
    ELSE "scripts.diff_model_train"

\* module = ... of the three stage cells
StageModule(c) ==
    IF c = "create_training_data" THEN "scripts.diff_model_create_training_data"
    ELSE IF c = "train" THEN "scripts.diff_model_train"
    ELSE "scripts.diff_model_infer"

\* module_args = ["--env_config", ..., "--model_config", ..., "--model_def", ...]
module_args ==
    [env_config |-> env_config_filepath,
     model_config |-> model_config_filepath,
     model_def |-> model_def_filepath]

\* subprocess.Popen(torchrun_command, stdout=PIPE, stderr=PIPE, text=True, env=env);
\* stdout and stderr are what the pipes hold (one entry per write of the
\* child), buffer is the decoded text process.stdout holds, as lines
Popen(module, args, gpus) ==
    [module |-> module, args |-> args, nproc_per_node |-> gpus, nnodes |-> num_nodes,
     OMP_NUM_THREADS |-> 1,
     state |-> "running", rc |-> 0, out_open |-> TRUE,
     stdout |-> <<>>, stderr |-> <<>>, buffer |-> <<>>]

\* process.poll(): None while the child runs
Poll(p) == IF p.state = "exited" THEN [t |-> "num", v |-> p.rc] ELSE PyNone

\* process.stdout.readline() can return or raise: it holds a line, the pipe
\* holds bytes, or the child's end of the pipe is closed
CanReadline(p) == p.buffer # <<>> \/ p.stdout # <<>> \/ ~p.out_open

\* the bytes readline takes from the pipe when it holds no line: all that
\* the pipe holds
Chunk(p) == Concat(p.stdout)

\* the chunk is decoded as a whole: one bad byte and the read raises
ReadlineRaises(p) == p.buffer = <<>> /\ Undecodable(Chunk(p))

\* the lines process.stdout holds once it has read
Lines(p) ==
    IF p.buffer # <<>> THEN p.buffer ELSE SplitLines(TranslateNewlines(Chunk(p)))

\* "" at the end of the file
Readline(p) == IF Lines(p) # <<>> THEN Head(Lines(p)) ELSE <<>>

\* if output == "" and process.poll() is not None: break
LoopBreak(output, polled) == output = <<>> /\ polled # PyNone

\* the first statements of a stage cell, up to Popen
Launch ==
    /\ \E k \in 1..Len(StageCells) : cell = StageCells[k]
    /\ rt = "idle"
    /\ procs' = Append(procs, Popen(StageModule(cell), module_args, num_gpus))
    /\ process' = Len(procs) + 1
    /\ rt' = "loop"
    /\ out_written' = <<>>
    /\ err_written' = <<>>
    /\ console' = <<>>
    /\ UNCHANGED <<cell, scn, e, gz_files, fs, heap, env_config, model_config, model_def,
                   env_config_out, model_config_out, model_def_out, returned>>

\* one iteration of "while True"
LoopIteration ==
    /\ rt = "loop"
    /\ CanReadline(procs[process])
    /\ LET p == procs[process]
           output == Readline(p)
       IN IF ReadlineRaises(p) THEN
              \* UnicodeDecodeError: the bytes read are gone with it
              /\ e' = DecodeError(Chunk(p))
              /\ procs' = [procs EXCEPT ![process].stdout = <<>>]
              /\ rt' = "except"
              /\ UNCHANGED console
          ELSE IF LoopBreak(output, Poll(p)) THEN
              /\ rt' = "finally"
              /\ UNCHANGED <<procs, console, e>>
          ELSE IF output # <<>> THEN
              /\ console' = Append(console, PyPrint(Strip(output)))
              \* the pipe is read only when process.stdout holds no line
              /\ procs' = [procs EXCEPT
                     ![process].stdout = IF p.buffer # <<>> THEN @ ELSE <<>>,
                     ![process].buffer = Tail(Lines(p))]
              /\ rt' = rt
              /\ UNCHANGED e
          ELSE
              \* end of file, the child still runs: the loop goes round
              UNCHANGED <<procs, console, rt, e>>
    /\ UNCHANGED <<cell, scn, gz_files, fs, heap, env_config, model_config, model_def,
                   env_config_out, model_config_out, model_def_out,
                   process, out_written, err_written, returned>>

\* except Exception as e: print(f"An error occurred: {e}")
Except ==
    /\ rt = "except"
    /\ console' = Append(console, PyPrint(<<"An error occurred: ">> \o e))
    /\ e' = <<>>
    /\ rt' = "finally"
    /\ UNCHANGED <<cell, scn, gz_files, fs, heap, env_config, model_config, model_def,
                   env_config_out, model_config_out, model_def_out,
                   procs, process, out_written, err_written, returned>>

\* process.communicate() returns or raises: the child has exited (it waits
\* for that and for the end of both pipes)
CommunicateReady(p) == p.state = "exited"

\* the finally block and the return: communicate() reads what the pipes
\* still hold and decodes it, "\r\n" and "\r" becoming "\n"; bytes that
\* are no text make it raise, and the exception leaves run_torchrun and
\* ends the cell
Finally ==
    /\ rt = "finally"
    /\ CommunicateReady(procs[process])
    /\ LET p == procs[process]
           out_bytes == Concat(p.stdout)
           err_bytes == Concat(p.stderr)
           stdout == TranslateNewlines(out_bytes)
           stderr == TranslateNewlines(err_bytes)
       IN /\ procs' = [procs EXCEPT ![process].stdout = <<>>, ![process].stderr = <<>>]
          /\ IF Undecodable(out_bytes) \/ Undecodable(err_bytes) THEN
                 /\ rt' = "idle"
                 /\ cell' = "error"
                 /\ UNCHANGED <<console, returned>>
             ELSE
                 /\ console' = console \o <<PyPrint(stdout)>>
                                \o (IF stderr # <<>> THEN <<PyPrint(stderr)>> ELSE <<>>)
                 /\ returned' = Append(returned, p.module)
                 /\ rt' = "returned"
                 /\ UNCHANGED cell
    /\ UNCHANGED <<scn, e, gz_files, fs, heap, env_config, model_config, model_def,
                   env_config_out, model_config_out, model_def_out,
                   process, out_written, err_written>>

NextCell(c) ==
    IF c = "create_training_data" THEN "jsons"
    ELSE IF c = "train" THEN "infer"
    ELSE "done"

\* the end of a stage cell
StageCellEnd ==
    /\ rt = "returned"
    /\ rt' = "idle"
    /\ cell' = NextCell(cell)
    /\ UNCHANGED <<scn, e, gz_files, fs, heap, env_config, model_config, model_def,
                   env_config_out, model_config_out, model_def_out,
                   procs, process, out_written, err_written, console, returned>>

(***************************************************************************)
(* The child processes: the scripts torchrun runs.  A child writes to its  *)
(* two pipes, does its stage's work on the file system, and exits with a   *)
(* return code.                                                            *)
(***************************************************************************)
Running(i) == i \in 1..Len(procs) /\ procs[i].state = "running"

ChildWriteOut(i, line) ==
    /\ Running(i)
    /\ procs[i].out_open
    /\ Len(out_written) < MaxOut
    /\ procs' = [procs EXCEPT ![i].stdout = Append(@, line)]
    /\ out_written' = IF i = process THEN Append(out_written, line) ELSE out_written
    /\ UNCHANGED <<cell, scn, e, gz_files, fs, heap, env_config, model_config, model_def,
                   env_config_out, model_config_out, model_def_out,
                   rt, process, err_written, console, returned>>

ChildWriteErr(i, line) ==
    /\ Running(i)
    /\ Len(err_written) < MaxErr
    /\ procs' = [procs EXCEPT ![i].stderr = Append(@, line)]
    /\ err_written' = IF i = process THEN Append(err_written, line) ELSE err_written
    /\ UNCHANGED <<cell, scn, e, gz_files, fs, heap, env_config, model_config, model_def,
                   env_config_out, model_config_out, model_def_out,
                   rt, process, out_written, console, returned>>

\* the child closes its stdout and keeps running
ChildCloseOut(i) ==
    /\ Running(i)
    /\ procs[i].out_open
    /\ procs' = [procs EXCEPT ![i].out_open = FALSE]
    /\ UNCHANGED <<cell, scn, e, gz_files, fs, heap, env_config, model_config, model_def,
                   env_config_out, model_config_out, model_def_out,
                   rt, process, out_written, err_written, console, returned>>

\* what --env_config names, as the script reads it
ChildEnv(p) == ReadJson(fs, p.args.env_config).v

\* the training images of the data list the environment names
TrainingImages(p) ==
    LET items == ReadJson(fs, ChildEnv(p)["json_data_list"].p).v["training"].v
    IN { items[n].v["image"].p : n \in 1..Len(items) }

\* "tr_image_001.nii.gz" -> "tr_image_001_emb.nii.gz"
EmbeddingName(name) == <<Head(name), "_emb">> \o Tail(name)

EmbeddingPath(p, img) ==
    PathJoin(ChildEnv(p)["embedding_base_dir"].p,
             [img EXCEPT ![Len(img)] = EmbeddingName(@)])

CheckpointPath(p) ==
    PathJoin(ChildEnv(p)["model_dir"].p, ChildEnv(p)["model_filename"].p)

PredictionPath(p) ==
    PathJoin(ChildEnv(p)["output_dir"].p, << <<"unet_3d", ".nii", ".gz">> >>)

\* the work of a stage is done
WorkDone(p) ==
    IF p.module = "scripts.diff_model_create_training_data" THEN
        \A img \in TrainingImages(p) : IsFile(fs, EmbeddingPath(p, img))
    ELSE IF p.module = "scripts.diff_model_train" THEN
        IsFile(fs, CheckpointPath(p))
    ELSE IsFile(fs, PredictionPath(p))

\* the training data the training script needs: every embedding and its
\* attribute file
HasTrainingData(p) ==
    \A img \in TrainingImages(p) :
        /\ IsFile(fs, EmbeddingPath(p, img))
        /\ IsFile(fs, AddSuffix(EmbeddingPath(p, img), ".json"))

\* one step of the stage's work
ChildWork(i) ==
    /\ Running(i)
    /\ LET p == procs[i] IN
       IF p.module = "scripts.diff_model_create_training_data" THEN
           \E img \in TrainingImages(p) :
               /\ IsFile(fs, PathJoin(ChildEnv(p)["data_base_dir"].p, img))
               /\ ~IsFile(fs, EmbeddingPath(p, img))
               /\ fs' = WriteFile(fs, EmbeddingPath(p, img),
                                  Nifti(<<32, 32, 32, 4>>, <<100, 125, 75, 100>>))
       ELSE IF p.module = "scripts.diff_model_train" THEN
           /\ HasTrainingData(p)
           /\ ~IsFile(fs, CheckpointPath(p))
           /\ fs' = WriteFile(fs, CheckpointPath(p), Opaque)
       ELSE
           /\ IsFile(fs, CheckpointPath(p))
           /\ ~IsFile(fs, PredictionPath(p))
           /\ fs' = WriteFile(fs, PredictionPath(p),
                              Nifti(<<128, 128, 128>>, <<100, 125, 75>>))
    /\ UNCHANGED <<cell, scn, e, gz_files, heap, env_config, model_config, model_def,
                   env_config_out, model_config_out, model_def_out,
                   procs, rt, process, out_written, err_written, console, returned>>

\* the child ends, which closes its ends of the pipes: the return code is
\* 0 when its work is done and 1 when it is not
ChildExit(i, rc) ==
    /\ Running(i)
    /\ rc = 0 <=> WorkDone(procs[i])
    /\ procs' = [procs EXCEPT ![i].state = "exited", ![i].rc = rc, ![i].out_open = FALSE]
    /\ UNCHANGED <<cell, scn, e, gz_files, fs, heap, env_config, model_config, model_def,
                   env_config_out, model_config_out, model_def_out,
                   rt, process, out_written, err_written, console, returned>>

(***************************************************************************)
(* Cell 0221a658: attribute files for the embeddings.                      *)
(***************************************************************************)
Last(s) == s[Len(s)]

\* file.endswith(".gz")
EndsWithGz(name) == Last(name) = ".gz"

\* the entries of directory d (a normalised path), as names
Entries(f, d) == { Last(q) : q \in { r \in DOMAIN f : Len(r) = Len(d) + 1 /\ SubSeq(r, 1, Len(d)) = d } }

\* the orders in which the file system may hand out the entries S of one
\* directory: os.walk lists each directory with os.scandir, whose order is
\* the file system's own, so every order of the entries is possible
RECURSIVE Orders(_)
Orders(S) ==
    IF S = {} THEN {<<>>}
    ELSE UNION { { <<x>> \o rest : rest \in Orders(S \ {x}) } : x \in S }

\* a mutation of list_gz_files: os.listdir instead of os.walk
ListGzFilesFlat(f, root) ==
    IF ~IsDir(f, root) THEN {<<>>}
    ELSE { LET files == SelectSeq(names, LAMBDA n : IsFile(f, Append(root, n)) /\ EndsWithGz(n))
           IN [k \in 1..Len(files) |-> Append(root, files[k])]
           : names \in Orders(Entries(f, Norm(root))) }

\* list_gz_files(folder_path): os.walk, top down; the set of the lists it
\* may return, one for every order in which the directories are listed
RECURSIVE ListGzFiles(_, _), WalkDirs(_, _, _)
ListGzFiles(f, root) ==
    IF ~IsDir(f, root) THEN {<<>>}
    ELSE UNION {
           LET files == SelectSeq(names, LAMBDA n : IsFile(f, Append(root, n)) /\ EndsWithGz(n))
               dirs == SelectSeq(names, LAMBDA n : IsDir(f, Append(root, n)))
           IN { [k \in 1..Len(files) |-> Append(root, files[k])] \o below
                : below \in WalkDirs(f, root, dirs) }
           : names \in Orders(Entries(f, Norm(root))) }
WalkDirs(f, root, dirs) ==
    IF dirs = <<>> THEN {<<>>}
    ELSE { first \o rest : first \in ListGzFiles(f, Append(root, Head(dirs))),
                           rest \in WalkDirs(f, root, Tail(dirs)) }

\* a mutation of the region constants: the top region is the lower body
LowerBodyTop == <<0, 0, 0, 1>>

top_region_index == <<0, 1, 0, 0>>
bottom_region_index == <<0, 0, 1, 0>>

Nums(s) == [k \in 1..Len(s) |-> JNum(s[k])]

\* x[:3]
FirstThree(s) == SubSeq(s, 1, Min(3, Len(s)))

\* the dictionary "data" of one .gz file
Attributes(img) ==
    PyDict(  "dim" :> PyTuple(Nums(FirstThree(img.shape)))
          @@ "spacing" :> PyList(Nums(FirstThree(FirstThree(img.zooms))))
          @@ "top_region_index" :> PyList(Nums(top_region_index))
          @@ "bottom_region_index" :> PyList(Nums(bottom_region_index)))

\* create_json_files(gz_files); the parameter is named files here
RECURSIVE CreateJsonFiles(_, _)
CreateJsonFiles(f, files) ==
    IF files = <<>> THEN f
    ELSE LET gz_file == Head(files)
             img == f[Norm(gz_file)].data
             json_filename == AddSuffix(gz_file, ".json")
         IN CreateJsonFiles(WriteFile(f, json_filename, Json(JsonDump(heap, Attributes(img)))),
                            Tail(files))

folder_path == GetItem(heap, env_config_out, "embedding_base_dir").p

JsonsCell ==
    /\ cell = "jsons"
    /\ \E listing \in ListGzFiles(fs, folder_path) :
           /\ gz_files' = listing
           /\ fs' = CreateJsonFiles(fs, listing)
    /\ cell' = "train"
    /\ console' = <<>>
    /\ UNCHANGED <<scn, e, heap, env_config, model_config, model_def,
                   env_config_out, model_config_out, model_def_out,
                   procs, rt, process, out_written, err_written, returned>>

Next ==
    \/ DatagenCell
    \/ ConfigLoad
    \/ ConfigEnv
    \/ ConfigModel
    \/ ConfigDef
    \/ Launch
    \/ LoopIteration
    \/ Except
    \/ Finally
    \/ StageCellEnd
    \/ JsonsCell
    \/ \E i \in 1..Len(procs), line \in LineSet : ChildWriteOut(i, line)
    \/ \E i \in 1..Len(procs), line \in ErrLineSet : ChildWriteErr(i, line)
    \/ \E i \in 1..Len(procs) : ChildCloseOut(i)
    \/ \E i \in 1..Len(procs) : ChildWork(i)
    \/ \E i \in 1..Len(procs), rc \in {0, 1} : ChildExit(i, rc)

Spec == Init /\ [][Next]_vars

(***************************************************************************)
(* Properties.                                                             *)
(***************************************************************************)
ConfigCells == {"config", "config_env", "config_model", "config_def"}

\* the configuration cell has run to its end
ConfigDone == cell \notin ({"datagen", "error"} \cup ConfigCells)

AllRunning == { i \in 1..Len(procs) : procs[i].state = "running" }

\* C1: the notebook launches the three stages in the order create training
\* data, train, infer, and all three once it is done; a stage is launched
\* only after run_torchrun returned for the stage before it, a child whose
\* run_torchrun returned has exited, and at most one child is alive.
C1_ThreeStagesInOrder ==
    /\ Len(procs) <= 3
    /\ \A i \in 1..Len(procs) :
           procs[i].module = <<"scripts.diff_model_create_training_data",
                               "scripts.diff_model_train",
                               "scripts.diff_model_infer">>[i]
    /\ cell = "done" => Len(procs) = 3
    /\ Len(returned) <= Len(procs)
    /\ Len(procs) <= Len(returned) + 1
    /\ \A i \in 1..Len(returned) :
           returned[i] = procs[i].module /\ procs[i].state = "exited"
    /\ Cardinality(AllRunning) <= 1

C1_Witness ==
    /\ cell = "done"
    /\ Len(procs) = 3
    /\ Len(returned) = 3

\* C2: a stage is launched only after the stage before it has completed its
\* work: its process has exited with return code 0 and its outputs exist
\* (an embedding for every training image; the trained checkpoint).
C2_LaunchedAfterCompletion ==
    \A i \in 2..Len(procs) :
        /\ procs[i - 1].state = "exited"
        /\ procs[i - 1].rc = 0
        /\ WorkDone(procs[i - 1])

\* what a line says: the line without its line end and the whitespace
\* around it
Content(line) == Strip(line)

\* what the stdout lines that are text say, in the order written
WrittenContents ==
    LET text == SelectSeq(out_written, LAMBDA w : ~Undecodable(w))
    IN [k \in 1..Len(text) |-> Content(text[k])]

\* what the printed lines say, in the order printed
PrintedContents ==
    LET lines == Concat([k \in 1..Len(console) |-> SplitLines(console[k])])
    IN [k \in 1..Len(lines) |-> Content(lines[k])]

\* C3: when run_torchrun returns, every line the child wrote to stdout has
\* been printed exactly once and in the order written, and what the child
\* wrote to stderr has been printed.  The claim is read in the code's
\* favour: a line counts as printed when what it says is printed (the
\* whitespace around it and the kind of its line end may differ), and only
\* lines that are text are asked for.
C3_NoLineLost ==
    rt = "returned" =>
        /\ SelectSeq(PrintedContents,
                     LAMBDA c : \E k \in 1..Len(WrittenContents) : WrittenContents[k] = c)
               = WrittenContents
        /\ err_written # <<>> =>
               \E k \in 1..Len(console) :
                   console[k] = PyPrint(TranslateNewlines(Concat(err_written)))

\* C4: when run_torchrun observes the child's exit (the loop breaks), every
\* line the child wrote to stdout or stderr has already been printed: none
\* is still unread in a pipe.
C4_PrintedBeforeExitObserved ==
    rt = "finally" =>
        /\ Len(console) = Len(out_written)
        /\ procs[process].stdout = <<>>
        /\ procs[process].stderr = <<>>

SourcePaths == {env_config_path, model_config_path, model_def_path}
WrittenPaths == {env_config_filepath, model_config_filepath, model_def_filepath}

FilesOf(f) == { q \in DOMAIN f : f[q].kind = "file" }

\* C5: the source files under ./configs keep their content and the loaded
\* dictionaries keep their value; the patched versions are the three files
\* written directly in work_dir (the only files the configuration cell
\* adds), and every stage is passed these three files.
C5_SourcesUnchanged ==
    /\ \A q \in SourcePaths : IsFile(fs, q) /\ fs[Norm(q)] = InitFS(scn)[Norm(q)]
    /\ cell \notin {"datagen", "config"} =>
           /\ JsonDump(heap, env_config) = EnvSource
           /\ JsonDump(heap, model_config) = SourceModelConfig(scn)
           /\ JsonDump(heap, model_def) = SourceModelDef(scn)
    /\ ConfigDone =>
           /\ \A q \in WrittenPaths :
                  IsFile(fs, q) /\ SubSeq(Norm(q), 1, Len(Norm(q)) - 1) = Norm(work_dir)
           /\ ReadJson(fs, env_config_filepath) = JsonDump(heap, env_config_out)
           /\ ReadJson(fs, model_config_filepath) = JsonDump(heap, model_config_out)
           /\ ReadJson(fs, model_def_filepath) = JsonDump(heap, model_def_out)
           /\ ReadJson(fs, model_config_filepath) # SourceModelConfig(scn)
           /\ ReadJson(fs, model_def_filepath) # SourceModelDef(scn)
    /\ (cell = "create_training_data" /\ procs = <<>>) =>
           FilesOf(fs) = FilesOf(InitFS(scn))
                         \cup { Norm(q) : q \in WrittenPaths }
                         \cup { Norm(datalist_file) }
                         \cup { Norm(dataroot_dir) \o <<n>> :
                                    n \in { <<"tr_image_001", ".nii", ".gz">>,
                                            <<"tr_image_002", ".nii", ".gz">> } }
    /\ \A i \in 1..Len(procs) :
           procs[i].args = [env_config |-> env_config_filepath,
                            model_config |-> model_config_filepath,
                            model_def |-> model_def_filepath]

C5_Witness ==
    /\ cell = "done"
    /\ Len(procs) = 3
    /\ ReadJson(fs, model_config_filepath).v["diffusion_unet_train"].v["n_epochs"] = JNum(2)
    /\ ReadJson(fs, model_config_path).v["diffusion_unet_train"].v["n_epochs"] = JNum(1000)

\* document out is document src with src[k1][k2] set to val and nothing
\* else added, removed or changed
SameExcept(out, src, k1, k2, val) ==
    /\ out.t = "obj" /\ DOMAIN out.v = DOMAIN src.v
    /\ \A k \in DOMAIN src.v \ {k1} : out.v[k] = src.v[k]
    /\ out.v[k1].t = "obj"
    /\ DOMAIN out.v[k1].v = DOMAIN src.v[k1].v \cup {k2}
    /\ out.v[k1].v[k2] = val
    /\ \A k \in DOMAIN src.v[k1].v \ {k2} : out.v[k1].v[k] = src.v[k1].v[k]

\* C6: the persisted model configuration is the source model configuration
\* with diffusion_unet_train.n_epochs = 2, and the persisted model
\* definition is the source model definition with
\* autoencoder_def.num_splits = 4; nothing else differs.
C6_OnlyTwoValuesPatched ==
    ConfigDone =>
        /\ SameExcept(ReadJson(fs, model_config_filepath), SourceModelConfig(scn),
                      "diffusion_unet_train", "n_epochs", JNum(2))
        /\ SameExcept(ReadJson(fs, model_def_filepath), SourceModelDef(scn),
                      "autoencoder_def", "num_splits", JNum(4))

\* the source has no n_epochs: the key is added inside diffusion_unet_train
C6_Witness ==
    /\ ConfigDone
    /\ "n_epochs" \notin DOMAIN SourceModelConfig(scn).v["diffusion_unet_train"].v
    /\ "n_epochs" \in DOMAIN ReadJson(fs, model_config_filepath).v["diffusion_unet_train"].v

ListedImages ==
    { <<"tr_image_001", ".nii", ".gz">>, <<"tr_image_002", ".nii", ".gz">> }

\* C7: sim_datalist lists 2 training images; the data list file holds
\* sim_datalist; for every listed image one file of that name and of shape
\* sim_dim is in dataroot_dir, and no other file is added to dataroot_dir.
C7_DatasetMatchesDatalist ==
    /\ Len(sim_datalist.v["training"].v) = 2
    /\ cell # "datagen" =>
           /\ IsFile(fs, datalist_file)
           /\ ReadJson(fs, datalist_file) =
                  JObj("training" :> JList(<<
                      JObj("image" :> JPath(<< <<"tr_image_001", ".nii", ".gz">> >>)),
                      JObj("image" :> JPath(<< <<"tr_image_002", ".nii", ".gz">> >>)) >>))
           /\ \A n \in ListedImages :
                  /\ Norm(dataroot_dir) \o <<n>> \in FilesOf(fs)
                  /\ fs[Norm(dataroot_dir) \o <<n>>].data.t = "nifti"
                  /\ fs[Norm(dataroot_dir) \o <<n>>].data.shape = <<224, 224, 96>>
           /\ Entries(fs, Norm(dataroot_dir)) =
                  Entries(InitFS(scn), Norm(dataroot_dir)) \cup ListedImages
           /\ \A q \in FilesOf(fs) \ FilesOf(InitFS(scn)) :
                  Last(q) \in ListedImages =>
                      SubSeq(q, 1, Len(q) - 1) = Norm(dataroot_dir)

C7_Witness ==
    /\ cell = "config"
    /\ scn.stale
    /\ Cardinality(Entries(fs, Norm(dataroot_dir))) = 3

\* the .gz files in directory d (normalised) and below
GzFilesBelow(f, d) ==
    { q \in FilesOf(f) :
          /\ Len(q) > Len(d)
          /\ SubSeq(q, 1, Len(d)) = d
          /\ Last(Last(q)) = ".gz" }

SeqRange(s) == { s[k] : k \in 1..Len(s) }

\* the attribute document for image img
IsAttributesOf(doc, img) ==
    /\ doc.t = "obj"
    /\ DOMAIN doc.v = {"dim", "spacing", "top_region_index", "bottom_region_index"}
    /\ doc.v["dim"] = JList([k \in 1..Min(3, Len(img.shape)) |-> JNum(img.shape[k])])
    /\ doc.v["spacing"] = JList([k \in 1..Min(3, Len(img.zooms)) |-> JNum(img.zooms[k])])

\* C8: list_gz_files returns exactly the .gz files in the folder and below,
\* each once, in whatever order the file system lists them, and the attribute cell writes, for each of them and for no
\* other file, the file <path>.json holding dim (the first three
\* dimensions), spacing (the first three zooms) and the two region keys;
\* every other file is left as it is.
C8_AttributeFilePerGz ==
    [][cell = "jsons" =>
          LET listed == gz_files'
              below == GzFilesBelow(fs, Norm(folder_path))
              targets == { AddSuffix(q, ".json") : q \in below }
          IN /\ { Norm(g) : g \in SeqRange(listed) } = below
             /\ Len(listed) = Cardinality(below)
             /\ \A g \in SeqRange(listed) : SubSeq(g, 1, Len(folder_path)) = folder_path
             /\ DOMAIN fs' = DOMAIN fs \cup targets
             /\ \A q \in DOMAIN fs \ targets : fs'[q] = fs[q]
             /\ \A q \in below :
                    /\ fs'[AddSuffix(q, ".json")].kind = "file"
                    /\ fs'[AddSuffix(q, ".json")].data.t = "json"
                    /\ IsAttributesOf(fs'[AddSuffix(q, ".json")].data.doc, fs[q].data)
      ]_vars

NewEmbedding == Norm(work_dir) \o << <<"embeddings">>, <<"tr_image_001", "_emb", ".nii", ".gz">> >>
SubfolderEmbedding == old_emb_dir \o << <<"sub">>, <<"old_scan", "_emb", ".nii", ".gz">> >>

C8_Witness ==
    /\ cell = "train"
    /\ scn.stale
    /\ AddSuffix(NewEmbedding, ".json") \in FilesOf(fs)
    /\ AddSuffix(SubfolderEmbedding, ".json") \in FilesOf(fs)
    /\ \E a, b \in 1..Len(gz_files) :
           /\ a < b
           /\ Last(gz_files[a]) = <<"tr_image_002", "_emb", ".nii", ".gz">>
           /\ Last(gz_files[b]) = <<"tr_image_001", "_emb", ".nii", ".gz">>
    /\ ReadJson(fs, AddSuffix(SubfolderEmbedding, ".json")).v["dim"]
           = JList(<<JNum(32), JNum(32), JNum(16)>>)

\* an attribute file: <name>.gz.json
AttributeFiles ==
    { q \in FilesOf(fs) :
          Len(Last(q)) >= 2 /\ SubSeq(Last(q), Len(Last(q)) - 1, Len(Last(q))) = <<".gz", ".json">> }

OneHot4(v) ==
    /\ v.t = "list" /\ Len(v.v) = 4
    /\ \A k \in 1..4 : v.v[k] \in {JNum(0), JNum(1)}
    /\ Cardinality({ k \in 1..4 : v.v[k] = JNum(1) }) = 1

\* the position of the region a one-hot vector names, from the head down
RegionOf(v) == CHOOSE k \in 1..4 : v.v[k] = JNum(1)

\* C9: in every attribute file the two region indices are 4-dimensional
\* one-hot vectors, the top region is the chest [0,1,0,0], the bottom
\* region the abdomen [0,0,1,0], and the top region is not below the
\* bottom region.
C9_RegionsOneHot ==
    \A q \in AttributeFiles :
        LET doc == fs[q].data.doc.v IN
        /\ OneHot4(doc["top_region_index"])
        /\ OneHot4(doc["bottom_region_index"])
        /\ doc["top_region_index"] = JList(<<JNum(0), JNum(1), JNum(0), JNum(0)>>)
        /\ doc["bottom_region_index"] = JList(<<JNum(0), JNum(0), JNum(1), JNum(0)>>)
        /\ RegionOf(doc["top_region_index"]) <= RegionOf(doc["bottom_region_index"])

C9_Witness ==
    /\ cell = "train"
    /\ AddSuffix(NewEmbedding, ".json") \in AttributeFiles

====
